---- MODULE Spec2Model ----
(***************************************************************************)
(* Contact-form mail relay: POST /send-email.                              *)
(*                                                                         *)
(* The repository holds two variants of the same server:                   *)
(*   "strict" - the variant with helmet, the express-rate-limit middleware,*)
(*              the required phone field, the type check and the user      *)
(*              confirmation (src/unnamed/part_000);                       *)
(*   "basic"  - src/index.js: no limiter, no phone, no type check, the     *)
(*              user confirmation commented out, validation and            *)
(*              sanitization outside the try block.                        *)
(* The variable variant fixes which of the two is running.                 *)
(*                                                                         *)
(* A JavaScript value of the request body is a record [kind, s]:           *)
(*   kind = "undefined"  the field is absent                               *)
(*   kind = "string"     s is the string, a sequence of characters         *)
(*   kind = "number"     s is its decimal representation                   *)
(*   kind = "array"      a one-element array holding the string s          *)
(*   kind = "object"     a plain object                                    *)
(* Strings interpolated into a mail are kept as the named holes of the     *)
(* template they are interpolated into.  The `year` hole (new Date()) is   *)
(* left out of the template data.                                          *)
(***************************************************************************)
EXTENDS Integers, Sequences, FiniteSets

VARIABLES variant, env, req, hits, arrived

vars == <<variant, env, req, hits, arrived>>

----------------------------------------------------------------------------
(* Bounds of the model *)

\* requests the server receives within one window, all sources together
MaxArrivals == 6

\* number of body fields that differ from the well-formed submission
MaxDeviations == 1

----------------------------------------------------------------------------
(* Program constants *)

SubjectMax == 100
NameMax == 50
MessageMax == 2000
RateLimitMax == 5

----------------------------------------------------------------------------
(* JavaScript values *)

Str(s) == [kind |-> "string", s |-> s]
Num(s) == [kind |-> "number", s |-> s]
Arr(s) == [kind |-> "array", s |-> s]
Obj == [kind |-> "object", s |-> <<>>]
Undef == [kind |-> "undefined", s |-> <<>>]

Repeat(n, c) == [i \in 1..n |-> c]

\* n characters c followed by one character d
Overlong(n, c, d) == [i \in 1..(n + 1) |-> IF i <= n THEN c ELSE d]

\* !v is false
Truthy(v) ==
  CASE v.kind = "undefined" -> FALSE
    [] v.kind = "string" -> Len(v.s) > 0
    [] v.kind = "number" -> v.s # <<"0">>
    [] OTHER -> TRUE

TypeOf(v) ==
  CASE v.kind = "array" -> "object"
    [] OTHER -> v.kind

ObjectObject ==
  <<"[", "o", "b", "j", "e", "c", "t", " ", "O", "b", "j", "e", "c", "t", "]">>

\* String(v), the coercion RegExp.prototype.test applies to its argument
JsString(v) ==
  CASE v.kind = "object" -> ObjectObject
    [] v.kind = "undefined" ->
         <<"u", "n", "d", "e", "f", "i", "n", "e", "d">>
    [] OTHER -> v.s

\* a !== b
StrictNotEqual(a, b) ==
  \/ a.kind # b.kind
  \/ a.kind \in {"array", "object"}
  \/ a.s # b.s

\* a || b
OrElse(a, b) == IF Truthy(a) THEN a ELSE b

\* [^\s@]
NotSpaceNorAt(c) == c \notin {" ", "@"}

\* /^[^\s@]+@[^\s@]+\.[^\s@]+$/.test(v)
EmailRegexTest(v) ==
  LET s == JsString(v)
      n == Len(s)
  IN \E i \in 1..n : \E j \in 1..n :
       /\ 1 < i
       /\ i + 1 < j
       /\ j < n
       /\ s[i] = "@"
       /\ s[j] = "."
       /\ \A k \in 1..n : k # i => NotSpaceNorAt(s[k])

\* a value that has a substring method
HasSubstring(v) == v.kind = "string"

\* s.substring(0, n)
Substring0(s, n) == SubSeq(s, 1, IF Len(s) < n THEN Len(s) ELSE n)

----------------------------------------------------------------------------
(* Request bodies *)

Fields == {"to", "subject", "name", "message", "phone"}

UserAddress == <<"a", "@", "b", ".", "c">>
AdminAddress == <<"m", "@", "c", ".", "o">>

\* the well-formed submission of a visitor who is not the administrator
WellFormed ==
  [to |-> Str(UserAddress),
   subject |-> Str(<<"H", "i">>),
   name |-> Str(<<"S", "a", "m">>),
   message |-> Str(<<"H", "e", "l", "l", "o">>),
   phone |-> Str(<<"1", "2", "3">>)]

ToValues ==
  {WellFormed.to, Undef, Str(<<>>), Str(AdminAddress),
   Str(<<"a", "b">>), Str(<<"a", "@", "b">>),
   Str(<<"a", " ", "b", "@", "c", ".", "d">>),
   Str(<<"a", "@", "b", "@", "c", ".", "d">>),
   Str(<<"a", "@", "b", ".">>),
   Num(<<"7">>), Arr(UserAddress), Obj}

SubjectValues ==
  {WellFormed.subject, Undef, Str(<<>>), Str(Repeat(SubjectMax, "s")),
   Str(Overlong(SubjectMax, "s", "!")), Num(<<"7">>), Num(<<"0">>)}

NameValues ==
  {WellFormed.name, Undef, Str(Repeat(NameMax, "n")),
   Str(Overlong(NameMax, "n", "!")), Obj}

MessageValues ==
  {WellFormed.message, Undef, Str(Repeat(MessageMax, "m")),
   Str(Overlong(MessageMax, "m", "!")), Arr(<<"H", "i">>)}

PhoneValues == {WellFormed.phone, Undef, Str(<<>>), Num(<<"7">>)}

Deviations(b) == Cardinality({f \in Fields : b[f] # WellFormed[f]})

Bodies ==
  {b \in [to : ToValues, subject : SubjectValues, name : NameValues,
          message : MessageValues, phone : PhoneValues] :
     Deviations(b) <= MaxDeviations}

Sources == {"ip1", "ip2"}

RECURSIVE Sum(_, _)
Sum(f, S) ==
  IF S = {} THEN 0
  ELSE LET x == CHOOSE y \in S : TRUE IN f[x] + Sum(f, S \ {x})

----------------------------------------------------------------------------
(* Validation and sanitization *)

\* the fields the handler destructures from req.body and requires
Required ==
  IF variant = "strict"
    THEN {"to", "subject", "name", "message", "phone"}
    ELSE {"to", "subject", "name", "message"}

\* !to || !subject || !name || !message (|| !phone)
MissingField(b) == \E f \in Required : ~Truthy(b[f])

\* typeof to !== 'string' || ... ; only the strict variant has this check
WrongType(b) ==
  /\ variant = "strict"
  /\ \E f \in Required : TypeOf(b[f]) # "string"

\* the format check left out
BadEmail_Skipped(b) == FALSE

\* !emailRegex.test(to)
BadEmail(b) == ~EmailRegexTest(b.to)

\* subject.substring / name.substring / message.substring is not a function
SubstringThrows(b) ==
  \E f \in {"subject", "name", "message"} : ~HasSubstring(b[f])

\* the raw fields passed on without substring(0, n)
Sanitize_Untruncated(b) ==
  [subject |-> b.subject.s, name |-> b.name.s, message |-> b.message.s]

Sanitize(b) ==
  [subject |-> Substring0(b.subject.s, SubjectMax),
   name |-> Substring0(b.name.s, NameMax),
   message |-> Substring0(b.message.s, MessageMax)]

NoSanitized == [subject |-> <<>>, name |-> <<>>, message |-> <<>>]

----------------------------------------------------------------------------
(* Mail composition *)

NoPart == [tpl |-> ""]

AdminMail(b, san) ==
  IF variant = "strict"
    THEN [kind |-> "admin",
          to |-> env,
          replyTo |-> [tpl |-> "\"${name}\" <${to}>",
                       name |-> san.name, to |-> b.to],
          subject |-> [tpl |-> "New Inquiry: ${subject}",
                       subject |-> san.subject],
          text |-> [tpl |-> "New message from ${name} (${to}) ...",
                    name |-> san.name, to |-> b.to,
                    subject |-> san.subject, message |-> san.message],
          html |-> [tpl |-> "welcome.ejs",
                    subject |-> san.subject, mobile |-> b.phone,
                    email |-> b.to, name |-> san.name,
                    companyName |-> "Lucid Petro Chemical",
                    message |-> san.message]]
    ELSE [kind |-> "admin",
          to |-> OrElse(env, b.to),
          replyTo |-> [tpl |-> "${to}", to |-> b.to],
          subject |-> [tpl |-> "Website Contact: ${subject}",
                       subject |-> san.subject],
          text |-> [tpl |-> "New message from ${name} (${to}) ...",
                    name |-> san.name, to |-> b.to,
                    subject |-> san.subject, message |-> san.message],
          html |-> [tpl |-> "welcome.ejs",
                    subject |-> san.subject, name |-> san.name,
                    companyName |-> "Your Company",
                    message |-> san.message]]

\* the confirmation addressed to the administrator instead of the submitter
UserMail_ToAdmin(b, san) ==
  [kind |-> "confirmation",
   to |-> env,
   replyTo |-> NoPart,
   subject |-> [tpl |-> "We've received your message about ${subject}",
                subject |-> san.subject],
   text |-> [tpl |-> "Dear ${name}, ... about \"${subject}\" ...",
             name |-> san.name, subject |-> san.subject],
   html |-> [tpl |-> "confirmationEmail",
             name |-> san.name, subject |-> san.subject]]

UserMail(b, san) ==
  [kind |-> "confirmation",
   to |-> b.to,
   replyTo |-> NoPart,
   subject |-> [tpl |-> "We've received your message about ${subject}",
                subject |-> san.subject],
   text |-> [tpl |-> "Dear ${name}, ... about \"${subject}\" ...",
             name |-> san.name, subject |-> san.subject],
   html |-> [tpl |-> "confirmationEmail",
             name |-> san.name, subject |-> san.subject]]

\* the comparison with the admin address left out
WantsConfirmation_Always(b) == variant = "strict"

\* to !== process.env.ADMIN_EMAIL, and the confirmation block is compiled in
WantsConfirmation(b) ==
  /\ variant = "strict"
  /\ StrictNotEqual(b.to, env)

----------------------------------------------------------------------------
(* Responses *)

Response(status, success, text) ==
  [status |-> status, success |-> success, text |-> text]

SuccessResponse ==
  Response(200, TRUE, "Your message has been sent successfully")

MissingText ==
  "All fields are required: recipient email, subject, name, and message"

AdminFailureText ==
  IF variant = "strict"
    THEN "Failed to send email to admin"
    ELSE "Failed to send email. Please try again later."

LimiterText ==
  "Too many email attempts from this IP, please try again later"

----------------------------------------------------------------------------
(* State *)

Idle ==
  [phase |-> "Idle", ip |-> "", seq |-> 0, body |-> WellFormed,
   sanitized |-> NoSanitized, rendered |-> "no",
   sends |-> <<>>, results |-> <<>>, responses |-> <<>>]

Init ==
  /\ variant \in {"strict", "basic"}
  /\ env \in IF variant = "strict"
               THEN {Str(AdminAddress)}
               ELSE {Str(AdminAddress), Undef}
  /\ req = Idle
  /\ hits = [ip \in Sources |-> 0]
  /\ arrived = [ip \in Sources |-> 0]

Respond(r) == [req EXCEPT !.phase = "Responded",
                          !.responses = Append(@, r)]

----------------------------------------------------------------------------
(* Arrival: the emailLimiter middleware of the strict variant *)

\* the request reaches the route handler
ReceiveRequest ==
  /\ req.phase = "Idle"
  /\ Sum(arrived, Sources) < MaxArrivals
  /\ \E ip \in Sources :
       /\ variant = "strict" => hits[ip] + 1 <= RateLimitMax
       /\ arrived' = [arrived EXCEPT ![ip] = @ + 1]
       /\ hits' = IF variant = "strict"
                    THEN [hits EXCEPT ![ip] = @ + 1]
                    ELSE hits
       /\ \E b \in Bodies :
            req' = [Idle EXCEPT !.phase = "Received", !.ip = ip,
                                !.seq = arrived[ip] + 1, !.body = b]
  /\ UNCHANGED <<variant, env>>

\* the limiter answers 429 and the handler is not called
RateLimitReject ==
  /\ req.phase = "Idle"
  /\ Sum(arrived, Sources) < MaxArrivals
  /\ variant = "strict"
  /\ \E ip \in Sources :
       /\ hits[ip] + 1 > RateLimitMax
       /\ arrived' = [arrived EXCEPT ![ip] = @ + 1]
       /\ hits' = [hits EXCEPT ![ip] = @ + 1]
       /\ \E b \in Bodies :
            req' = [Idle EXCEPT !.phase = "RateLimited", !.ip = ip,
                                !.seq = arrived[ip] + 1, !.body = b,
                                !.responses =
                                  <<Response(429, FALSE, LimiterText)>>]
  /\ UNCHANGED <<variant, env>>

\* the window of a source ends
WindowReset(ip) ==
  /\ arrived[ip] > 0
  /\ arrived' = [arrived EXCEPT ![ip] = 0]
  /\ hits' = [hits EXCEPT ![ip] = 0]
  /\ UNCHANGED <<variant, env, req>>

----------------------------------------------------------------------------
(* The route handler, split at its await points *)

RejectMissing ==
  /\ req.phase = "Received"
  /\ MissingField(req.body)
  /\ req' = Respond(Response(400, FALSE, MissingText))
  /\ UNCHANGED <<variant, env, hits, arrived>>

RejectTypes ==
  /\ req.phase = "Received"
  /\ ~MissingField(req.body)
  /\ WrongType(req.body)
  /\ req' = Respond(Response(400, FALSE, "Invalid input types"))
  /\ UNCHANGED <<variant, env, hits, arrived>>

RejectEmail ==
  /\ req.phase = "Received"
  /\ ~MissingField(req.body)
  /\ ~WrongType(req.body)
  /\ BadEmail(req.body)
  /\ req' = Respond(Response(400, FALSE,
                             "Please provide a valid email address"))
  /\ UNCHANGED <<variant, env, hits, arrived>>

Validated(b) == ~MissingField(b) /\ ~WrongType(b) /\ ~BadEmail(b)

\* basic variant: the TypeError is thrown before the try block, the async
\* handler's promise rejects and nothing forwards the rejection
SanitizeThrowUnhandled ==
  /\ req.phase = "Received"
  /\ Validated(req.body)
  /\ SubstringThrows(req.body)
  /\ req' = [req EXCEPT !.phase = "Unanswered"]
  /\ UNCHANGED <<variant, env, hits, arrived>>

\* basic variant: the router forwards the rejection to the error middleware
SanitizeThrowForwarded ==
  /\ req.phase = "Received"
  /\ Validated(req.body)
  /\ SubstringThrows(req.body)
  /\ req' = Respond(Response(500, FALSE, "Internal server error"))
  /\ UNCHANGED <<variant, env, hits, arrived>>

\* sanitization, then await renderTemplate('welcome', ...)
StartRender ==
  /\ req.phase = "Received"
  /\ Validated(req.body)
  /\ ~SubstringThrows(req.body)
  /\ req' = [req EXCEPT !.phase = "Rendering",
                        !.sanitized = Sanitize(req.body)]
  /\ UNCHANGED <<variant, env, hits, arrived>>

\* the rendering error swallowed: the admin mail goes out without a body
RenderFailed_SendsAnyway ==
  /\ req.phase = "Rendering"
  /\ req' = [req EXCEPT !.phase = "SendingAdmin",
                        !.rendered = "failed",
                        !.sends = Append(@, AdminMail(req.body,
                                                      req.sanitized))]
  /\ UNCHANGED <<variant, env, hits, arrived>>

\* renderTemplate throws; the handler's catch answers 500
RenderFailed ==
  /\ req.phase = "Rendering"
  /\ req' = [Respond(Response(500, FALSE, "Failed to render email template"))
               EXCEPT !.rendered = "failed"]
  /\ UNCHANGED <<variant, env, hits, arrived>>

\* renderTemplate returns; the admin mail is composed and sendEmail awaited
RenderOk ==
  /\ req.phase = "Rendering"
  /\ req' = [req EXCEPT !.phase = "SendingAdmin",
                        !.rendered = "ok",
                        !.sends = Append(@, AdminMail(req.body,
                                                      req.sanitized))]
  /\ UNCHANGED <<variant, env, hits, arrived>>

\* adminResult.success not checked: the handler goes on as after a success
AdminSendFailed_Ignored ==
  /\ req.phase = "SendingAdmin"
  /\ req' = IF WantsConfirmation(req.body)
              THEN [req EXCEPT !.phase = "SendingUser",
                               !.results = Append(@, FALSE),
                               !.sends = Append(@, UserMail(req.body,
                                                            req.sanitized))]
              ELSE [Respond(SuccessResponse)
                      EXCEPT !.results = Append(@, FALSE)]
  /\ UNCHANGED <<variant, env, hits, arrived>>

\* sendEmail returns {success: false}; the handler throws into its catch
AdminSendFailed ==
  /\ req.phase = "SendingAdmin"
  /\ req' = [Respond(Response(500, FALSE, AdminFailureText))
               EXCEPT !.results = Append(@, FALSE)]
  /\ UNCHANGED <<variant, env, hits, arrived>>

\* sendEmail returns {success: true}
AdminSendOk ==
  /\ req.phase = "SendingAdmin"
  /\ req' = IF WantsConfirmation(req.body)
              THEN [req EXCEPT !.phase = "SendingUser",
                               !.results = Append(@, TRUE),
                               !.sends = Append(@, UserMail(req.body,
                                                            req.sanitized))]
              ELSE [Respond(SuccessResponse)
                      EXCEPT !.results = Append(@, TRUE)]
  /\ UNCHANGED <<variant, env, hits, arrived>>

\* the confirmation result checked like the admin result
UserSendDone_Propagates(ok) ==
  /\ req.phase = "SendingUser"
  /\ req' = [Respond(IF ok THEN SuccessResponse
                     ELSE Response(500, FALSE, "Failed to send email"))
               EXCEPT !.results = Append(@, ok)]
  /\ UNCHANGED <<variant, env, hits, arrived>>

\* await sendEmail(userMailOptions): the result is discarded
UserSendDone(ok) ==
  /\ req.phase = "SendingUser"
  /\ req' = [Respond(SuccessResponse) EXCEPT !.results = Append(@, ok)]
  /\ UNCHANGED <<variant, env, hits, arrived>>

Terminal == {"Responded", "RateLimited", "Unanswered"}

\* the request is over and its data discarded
Finish ==
  /\ req.phase \in Terminal
  /\ req' = Idle
  /\ UNCHANGED <<variant, env, hits, arrived>>

Next ==
  \/ ReceiveRequest
  \/ RateLimitReject
  \/ \E ip \in Sources : WindowReset(ip)
  \/ RejectMissing
  \/ RejectTypes
  \/ RejectEmail
  \/ SanitizeThrowUnhandled
  \/ SanitizeThrowForwarded
  \/ StartRender
  \/ RenderFailed
  \/ RenderOk
  \/ AdminSendFailed
  \/ AdminSendOk
  \/ \E ok \in BOOLEAN : UserSendDone(ok)
  \/ Finish

Spec == Init /\ [][Next]_vars

----------------------------------------------------------------------------
(* Vocabulary of the properties *)

\* the route handler has been called for the request in hand
InHandler == req.phase \notin {"Idle", "RateLimited"}

Answered == req.phase = "Responded"

\* the request was answered once, with this status and success flag
AnsweredWith(status, success) ==
  /\ Answered
  /\ Len(req.responses) = 1
  /\ req.responses[1].status = status
  /\ req.responses[1].success = success

\* the submitted `to` is the configured admin address
ToIsAdmin == req.body.to.kind = "string" /\ env.kind = "string"
             /\ req.body.to.s = env.s

AdminSendReported(ok) == Len(req.results) >= 1 /\ req.results[1] = ok

ConfirmationSendReported(ok) == Len(req.results) = 2 /\ req.results[2] = ok

\* e is the first n characters of s (all of s when s is shorter)
IsPrefix(e, s, n) ==
  /\ Len(e) = (IF Len(s) < n THEN Len(s) ELSE n)
  /\ e \o SubSeq(s, Len(e) + 1, Len(s)) = s

MailParts == {"replyTo", "subject", "text", "html"}

\* a required field is absent or the empty string
RequiredFieldAbsent ==
  \E f \in (IF variant = "strict" THEN Fields ELSE Fields \ {"phone"}) :
    req.body[f] = Undef \/ req.body[f] = Str(<<>>)

\* `to` is a string that does not have the shape local@domain.tld
ToMalformed ==
  /\ req.body.to.kind = "string"
  /\ ~EmailRegexTest(req.body.to)

\* a submitted field is present but is no string
NonStringField ==
  \E f \in Fields : req.body[f].kind \in {"number", "array", "object"}

----------------------------------------------------------------------------
(* C1 *)

\* C1: when the admin-notification send reports failure, the request is
\* answered 500 with success:false and that send is its only send attempt:
\* the user confirmation is never attempted.
C1_AdminFailureIs500 ==
  AdminSendReported(FALSE) =>
    /\ AnsweredWith(500, FALSE)
    /\ Len(req.sends) = 1
    /\ req.sends[1].kind = "admin"

\* the admin send failed for a submitter who would have got a confirmation
C1_Witness ==
  /\ AdminSendReported(FALSE)
  /\ WantsConfirmation(req.body)
  /\ Answered

----------------------------------------------------------------------------
(* C2 *)

\* C2: when `to` differs from the admin address, the admin send succeeds
\* and the user-confirmation send fails, the answer is still 200 with
\* success:true; the confirmation failure never produces a 500.
C2_ConfirmationFailureSwallowed ==
  (~ToIsAdmin /\ AdminSendReported(TRUE) /\ ConfirmationSendReported(FALSE))
    => /\ AnsweredWith(200, TRUE)
       /\ req.responses[1] = SuccessResponse

C2_Witness ==
  /\ ~ToIsAdmin
  /\ req.results = <<TRUE, FALSE>>
  /\ Len(req.sends) = 2
  /\ Answered

----------------------------------------------------------------------------
(* C3 *)

\* C3 as stated: every validated request whose `to` is the admin address
\* has, once answered, sent exactly one message, the admin notification.
C3_Original ==
  (Answered /\ Validated(req.body) /\ ToIsAdmin) =>
    /\ Len(req.sends) = 1
    /\ req.sends[1].kind = "admin"

\* C3 amended: a validated request whose `to` is the admin address never
\* attempts a user confirmation and attempts at most one send, the admin
\* notification: exactly one once the admin template has rendered, whatever
\* that send's outcome, and none when rendering (or a step before it) fails.
C3_OnlyAdminMailToAdmin ==
  (InHandler /\ Validated(req.body) /\ ToIsAdmin) =>
    /\ Len(req.sends) <= 1
    /\ \A i \in 1..Len(req.sends) : req.sends[i].kind = "admin"
    /\ (Len(req.sends) = 1) <=> (req.rendered = "ok")
    /\ Len(req.results) <= 1
    /\ (Len(req.results) = 1 /\ Answered) => Len(req.sends) = 1

\* the administrator's own submission sent and answered in the strict variant
C3_Witness ==
  /\ variant = "strict"
  /\ ToIsAdmin
  /\ Answered
  /\ Len(req.sends) = 1
  /\ req.results = <<TRUE>>

----------------------------------------------------------------------------
(* C4 *)

\* C4 as stated: every validated request whose `to` differs from the admin
\* address and whose admin send succeeded has, once answered, attempted
\* exactly two sends, the admin notification and then the confirmation to
\* `to`, and is answered 200 "Your message has been sent successfully".
C4_Original ==
  (Answered /\ ~ToIsAdmin /\ AdminSendReported(TRUE)) =>
    /\ Len(req.sends) = 2
    /\ req.sends[1].kind = "admin"
    /\ req.sends[2].kind = "confirmation"
    /\ req.sends[2].to = req.body.to
    /\ req.responses = <<SuccessResponse>>

\* C4 amended: no request attempts more than two sends and a confirmation
\* send starts only after the admin send has reported success.  In the
\* variant that sends confirmations (strict), a validated request whose `to`
\* differs from the admin address and whose admin send succeeded attempts
\* exactly two sends, first the admin notification to the admin address and
\* then the confirmation to `to`; in the variant whose confirmation block is
\* disabled (basic) it attempts the admin notification alone, addressed to
\* the admin address or, when none is configured, to `to`.  In both it is
\* answered 200 "Your message has been sent successfully".
C4_AdminThenConfirmation ==
  /\ Len(req.sends) <= 2
  /\ Len(req.sends) = 2 =>
       /\ AdminSendReported(TRUE)
       /\ req.sends[1].kind = "admin"
       /\ req.sends[2].kind = "confirmation"
  /\ (InHandler /\ ~ToIsAdmin /\ AdminSendReported(TRUE)) =>
       /\ req.sends[1].kind = "admin"
       /\ req.sends[1].to = (IF env.kind = "string" THEN env ELSE req.body.to)
       /\ IF variant = "strict"
            THEN /\ Len(req.sends) = 2
                 /\ req.sends[2].kind = "confirmation"
                 /\ req.sends[2].to = req.body.to
            ELSE Len(req.sends) = 1
       /\ Answered => req.responses = <<SuccessResponse>>

\* both sends made and the request answered
C4_Witness ==
  /\ variant = "strict"
  /\ ~ToIsAdmin
  /\ Answered
  /\ Len(req.sends) = 2
  /\ req.results = <<TRUE, TRUE>>

----------------------------------------------------------------------------
(* C5 *)

\* C5: a request with a required field absent or empty, or with a `to` that
\* does not match the address pattern, is answered 400 with success:false;
\* neither template rendering nor a mail send is attempted for it.
C5_InvalidInputIs400 ==
  (InHandler /\ (RequiredFieldAbsent \/ ToMalformed)) =>
    /\ req.phase \in {"Received", "Responded"}
    /\ Answered => AnsweredWith(400, FALSE)
    /\ req.rendered = "no"
    /\ req.sends = <<>>
    /\ req.results = <<>>

\* a malformed address, all required fields present, answered
C5_Witness ==
  /\ Answered
  /\ ToMalformed
  /\ ~RequiredFieldAbsent
  /\ req.responses[1].text = "Please provide a valid email address"

----------------------------------------------------------------------------
(* C6 *)

\* C6: a request with a submitted field that is present but no string is
\* answered 400 and never reaches sanitization, rendering or sending.
C6_NonStringIs400 ==
  (InHandler /\ NonStringField) =>
    /\ req.phase \in {"Received", "Responded"}
    /\ Answered => AnsweredWith(400, FALSE)
    /\ req.sanitized = NoSanitized
    /\ req.rendered = "no"
    /\ req.sends = <<>>

----------------------------------------------------------------------------
(* C7 *)

\* C7: wherever an outgoing message embeds the subject, the name or the
\* message, it embeds the first 100, 50 and 2000 characters of the submitted
\* value; a value within its bound is embedded unchanged.
C7_TruncatedEverywhere ==
  \A i \in 1..Len(req.sends) : \A p \in MailParts :
    LET part == req.sends[i][p] IN
      /\ "subject" \in DOMAIN part =>
           /\ IsPrefix(part.subject, req.body.subject.s, SubjectMax)
           /\ Len(part.subject) <= SubjectMax
           /\ Len(req.body.subject.s) <= SubjectMax =>
                part.subject = req.body.subject.s
      /\ "name" \in DOMAIN part =>
           /\ IsPrefix(part.name, req.body.name.s, NameMax)
           /\ Len(part.name) <= NameMax
           /\ Len(req.body.name.s) <= NameMax =>
                part.name = req.body.name.s
      /\ "message" \in DOMAIN part =>
           /\ IsPrefix(part.message, req.body.message.s, MessageMax)
           /\ Len(part.message) <= MessageMax
           /\ Len(req.body.message.s) <= MessageMax =>
                part.message = req.body.message.s

\* both mails of a submission with an overlong field have gone out
C7_Witness ==
  /\ Len(req.sends) = 2
  /\ \/ Len(req.body.subject.s) > SubjectMax
     \/ Len(req.body.name.s) > NameMax
  /\ Answered

----------------------------------------------------------------------------
(* C8 *)

\* C8: the 6th and every later request of a source within one window is
\* rejected by the rate limiter and not processed; the first 5 are passed on
\* to the handler.
C8_SixthIsRejected ==
  req.phase # "Idle" =>
    (req.seq > RateLimitMax <=> req.phase = "RateLimited")

----------------------------------------------------------------------------
(* C9 *)

\* C9: when rendering the admin template fails, the request is answered 500
\* with success:false and no send is attempted; a send is attempted only
\* after the template has rendered.
C9_RenderFailureIs500 ==
  /\ req.rendered = "failed" =>
       /\ AnsweredWith(500, FALSE)
       /\ req.sends = <<>>
       /\ req.results = <<>>
  /\ req.sends # <<>> => req.rendered = "ok"
  /\ req.phase = "Rendering" => req.sends = <<>>

C9_Witness ==
  /\ req.rendered = "failed"
  /\ Answered
  /\ req.responses[1].text = "Failed to render email template"

----------------------------------------------------------------------------
(* C10 *)

\* C10: whatever the body, a request handed to the handler is never left
\* without a response, and a request that has been answered has exactly one
\* response, with status 200, 400 or 500.
C10_ExactlyOneResponse ==
  InHandler =>
    /\ req.phase # "Unanswered"
    /\ Len(req.responses) <= 1
    /\ Answered =>
         /\ Len(req.responses) = 1
         /\ req.responses[1].status \in {200, 400, 500}

====
